---- MODULE Spec2Model ----
(***************************************************************************)
(* Model of monorepo-agent (src/src/main.rs, src/src/config.rs): the       *)
(* `init` and `sync` commands, the persisted registry .monorepo/config.json *)
(* and the directories the commands look at and create.                    *)
(*                                                                         *)
(* Text is a sequence of strings: command-line arguments are sequences of  *)
(* one-character strings, so that split(',') and trim() do real work;      *)
(* rule patterns are one-element sequences.  The persisted document is a   *)
(* sequence of JSON tokens; loading parses it, saving prints it.           *)
(* One invocation runs at a time (spec section 5); file reads and writes   *)
(* of the registry succeed, directory creation and the external tool may   *)
(* fail.                                                                   *)
(***************************************************************************)
EXTENDS Naturals, Sequences, FiniteSets, TLC

VARIABLES
    config_dir,     \* BOOLEAN: the directory .monorepo exists
    config_file,    \* [exists, contents]: .monorepo/config.json
    fs,             \* kind of every source and target path: "absent", "dir", "file"
    pc,             \* "idle": no invocation; "loop": sync_submodules iterates;
                    \* "done": the command has returned to main
    todo,           \* sync: entries of submodules_to_process not yet visited
    working_set,    \* sync: submodules_to_process as computed at line 107
    outcomes,       \* sync: [name, outcome] of every visited entry, in order
    calls,          \* sync: rsync invocations of this call, in order
    ret,            \* result of the invocation: "none", "running", "ok", "err"
    cmd,            \* the invocation: [op, has_arg, arg]
    before,         \* on-disk state when the invocation started
    app_config,     \* the registry the invocation holds in memory (app_config.submodules)
    saved           \* [any, subs]: the registry the invocation gave to save_config

vars == <<config_dir, config_file, fs, pc, todo, working_set, outcomes, calls,
          ret, cmd, before, app_config, saved>>

-----------------------------------------------------------------------------
(* Bounds *)

\* largest number of comma-separated pieces in a command-line argument
MaxPieces == 2
\* the registry is not grown beyond this many entries
MaxEntries == 3
\* longest include or exclude list of a registry drawn for saving and loading
MaxRules == 2

-----------------------------------------------------------------------------
(* Text *)

Space == " "
Comma == ","

\* the pieces arguments are put together from: blank ones, plain names and
\* names with surrounding whitespace
RawPieces ==
    { <<>>, <<Space>>, <<"a">>, <<Space, "b", Space>> }

RECURSIVE JoinComma(_)
JoinComma(l) ==
    IF Len(l) = 0 THEN <<>>
    ELSE IF Len(l) = 1 THEN l[1]
    ELSE l[1] \o <<Comma>> \o JoinComma(Tail(l))

\* the strings given as --submodules
ArgStrings ==
    { JoinComma(l) : l \in UNION { [1..n -> RawPieces] : n \in 1..MaxPieces } }

\* str::split(','): the pieces between commas; never an empty vector
RECURSIVE split_from(_, _)
split_from(s, cur) ==
    IF s = <<>> THEN <<cur>>
    ELSE IF Head(s) = Comma THEN <<cur>> \o split_from(Tail(s), <<>>)
    ELSE split_from(Tail(s), Append(cur, Head(s)))

split(s) == split_from(s, <<>>)

\* str::trim(): without leading and trailing whitespace
RECURSIVE trim_start(_)
trim_start(s) ==
    IF s # <<>> /\ Head(s) = Space THEN trim_start(Tail(s)) ELSE s

RECURSIVE trim_end(_)
trim_end(s) ==
    IF s # <<>> /\ s[Len(s)] = Space THEN trim_end(SubSeq(s, 1, Len(s) - 1)) ELSE s

trim(s) == trim_end(trim_start(s))

\* s.split(',').map(|s| s.trim().to_string()).collect()
parse_names(s) == LET p == split(s) IN [i \in 1..Len(p) |-> trim(p[i])]

Contains(seq, x) == \E i \in 1..Len(seq) : seq[i] = x

-----------------------------------------------------------------------------
(* The registry and its persisted document (config.rs) *)

SubmoduleConfig(n, p, inc, exc) ==
    [name |-> n, path |-> p, include |-> inc, exclude |-> exc]

Tok(t, v) == [t |-> t, v |-> v]
Punct(t) == Tok(t, <<>>)
Key(k) == Tok("key", <<k>>)
Str(v) == Tok("str", v)

\* the strings are written last to first
StrToks_reversed(l) == [i \in 1..Len(l) |-> Str(l[Len(l) + 1 - i])]

StrToks(l) == [i \in 1..Len(l) |-> Str(l[i])]

ListToks(l) == <<Punct("[")>> \o StrToks(l) \o <<Punct("]")>>

EntryToks(e) ==
    <<Punct("{"), Key("name"), Str(e.name), Key("path"), Str(e.path), Key("include")>>
    \o ListToks(e.include) \o <<Key("exclude")>> \o ListToks(e.exclude)
    \o <<Punct("}")>>

RECURSIVE EntriesToks(_)
EntriesToks(subs) ==
    IF subs = <<>> THEN <<>> ELSE EntryToks(Head(subs)) \o EntriesToks(Tail(subs))

\* serde_json::to_string_pretty(&AppConfig)
to_string_pretty(subs) ==
    <<Punct("{"), Key("submodules"), Punct("[")>> \o EntriesToks(subs)
    \o <<Punct("]"), Punct("}")>>

ParseFail == [ok |-> FALSE, val |-> <<>>, next |-> 0]

IsTok(toks, i, t) == i <= Len(toks) /\ toks[i].t = t
IsKey(toks, i, k) == i <= Len(toks) /\ toks[i] = Key(k)

RECURSIVE parse_strings(_, _, _)
parse_strings(toks, i, acc) ==
    IF IsTok(toks, i, "]") THEN [ok |-> TRUE, val |-> acc, next |-> i + 1]
    ELSE IF IsTok(toks, i, "str") THEN parse_strings(toks, i + 1, Append(acc, toks[i].v))
    ELSE ParseFail

parse_list(toks, i) ==
    IF IsTok(toks, i, "[") THEN parse_strings(toks, i + 1, <<>>) ELSE ParseFail

parse_entry(toks, i) ==
    IF /\ IsTok(toks, i, "{")
       /\ IsKey(toks, i + 1, "name") /\ IsTok(toks, i + 2, "str")
       /\ IsKey(toks, i + 3, "path") /\ IsTok(toks, i + 4, "str")
       /\ IsKey(toks, i + 5, "include")
    THEN LET inc == parse_list(toks, i + 6) IN
         IF ~inc.ok \/ ~IsKey(toks, inc.next, "exclude") THEN ParseFail
         ELSE LET exc == parse_list(toks, inc.next + 1) IN
              IF ~exc.ok \/ ~IsTok(toks, exc.next, "}") THEN ParseFail
              ELSE [ok |-> TRUE,
                    val |-> SubmoduleConfig(toks[i + 2].v, toks[i + 4].v, inc.val, exc.val),
                    next |-> exc.next + 1]
    ELSE ParseFail

RECURSIVE parse_entries(_, _, _)
parse_entries(toks, i, acc) ==
    IF IsTok(toks, i, "]") THEN [ok |-> TRUE, val |-> acc, next |-> i + 1]
    ELSE LET e == parse_entry(toks, i) IN
         IF e.ok THEN parse_entries(toks, e.next, Append(acc, e.val)) ELSE ParseFail

\* serde_json::from_str::<AppConfig>
from_str(toks) ==
    IF IsTok(toks, 1, "{") /\ IsKey(toks, 2, "submodules") /\ IsTok(toks, 3, "[")
    THEN LET es == parse_entries(toks, 4, <<>>) IN
         IF es.ok /\ IsTok(toks, es.next, "}") /\ es.next = Len(toks)
         THEN [ok |-> TRUE, val |-> es.val]
         ELSE [ok |-> FALSE, val |-> <<>>]
    ELSE [ok |-> FALSE, val |-> <<>>]

\* a document that does not parse is taken for an empty registry
load_or_default(file) ==
    IF file.exists /\ from_str(file.contents).ok THEN from_str(file.contents)
    ELSE [ok |-> TRUE, val |-> <<>>]

\* load_or_create_config: the parsed document, the empty registry when there is
\* no document, an error when the document does not parse
load_or_create_config(file) ==
    IF file.exists THEN from_str(file.contents)
    ELSE [ok |-> TRUE, val |-> <<>>]

\* save_config: the document is replaced by the printed registry
save_config(subs) == [exists |-> TRUE, contents |-> to_string_pretty(subs)]

\* a missing document is created on load
file_after_load_creates(file) ==
    IF file.exists THEN file ELSE [exists |-> TRUE, contents |-> to_string_pretty(<<>>)]

\* config.rs lines 33-35: loading leaves the disk alone, also when there is no
\* document
file_after_load(file) == file

NoSave == [any |-> FALSE, subs |-> <<>>]

-----------------------------------------------------------------------------
(* Paths and the file system *)

\* lines 60-61: the rules of a new entry
DefaultInclude == << <<"lib/***">>, <<"pubspec.yaml">>, <<"test/***">> >>
DefaultExclude == << <<"*">> >>

\* the catch-all exclude rule is left out
DefaultEntry_no_exclude(n) == SubmoduleConfig(n, n, DefaultInclude, <<>>)

\* lines 57-62
DefaultEntry(n) == SubmoduleConfig(n, n, DefaultInclude, DefaultExclude)

\* the names a trimmed piece can be
Names == { trim(p) : p \in RawPieces } \ { <<>> }

\* a registry with name, path and rules set by hand
CustomRegistry ==
    << SubmoduleConfig(<<"c">>, <<"b">>, << <<"src/***">>, <<"src/***">> >>,
                       << <<"*.tmp">>, <<"*">> >>) >>

\* std::env::current_dir(): the monorepo root, as path components
CurrentDir == << <<"work">>, <<"mono">> >>

\* Path::parent
parent(p) == SubSeq(p, 1, Len(p) - 1)

\* Path::join with a relative path of one component
join(p, c) == Append(p, c)

parent_dir == parent(CurrentDir)

\* line 137: the entry's content inside the monorepo
source_path(sub) == join(CurrentDir, sub.path)

\* line 148: the sibling of the monorepo root named after the entry
target_path(sub) == join(parent_dir, sub.name)

\* the paths a sync looks at: sources and targets of the entries there can be
PossibleEntries ==
    { DefaultEntry(n) : n \in Names } \cup { CustomRegistry[i] : i \in 1..Len(CustomRegistry) }

FsPaths ==
    { source_path(e) : e \in PossibleEntries } \cup { target_path(e) : e \in PossibleEntries }

Kinds == { "absent", "dir", "file" }

\* Path::exists, Path::is_dir
exists(f, p) == f[p] # "absent"
is_dir(f, p) == f[p] = "dir"

\* to_string_lossy of a path: its components after separators
RECURSIVE path_string(_)
path_string(p) ==
    IF p = <<>> THEN <<>> ELSE <<"/">> \o Head(p) \o path_string(Tail(p))

-----------------------------------------------------------------------------
(* init (main.rs, init_monorepo) *)

\* the check for blank names is left out
invalid_names_only_empty(names) == names = <<>>

\* line 46: the list is refused
invalid_names(names) == names = <<>> \/ \E i \in 1..Len(names) : names[i] = <<>>

\* only the first entry is compared
is_configured_first_only(subs, n) == subs # <<>> /\ subs[1].name = n

\* line 56: an entry of that name is configured
is_configured(subs, n) == \E i \in 1..Len(subs) : subs[i].name = n

\* every name is appended, configured or not
RECURSIVE register_append_all(_, _)
register_append_all(subs, names) ==
    IF names = <<>> THEN subs
    ELSE register_append_all(Append(subs, DefaultEntry(Head(names))), Tail(names))

\* a new entry is put in front of the registry
RECURSIVE register_prepend(_, _)
register_prepend(subs, names) ==
    IF names = <<>> THEN subs
    ELSE register_prepend(IF \E i \in 1..Len(subs) : subs[i].name = Head(names) THEN subs
                          ELSE <<DefaultEntry(Head(names))>> \o subs,
                          Tail(names))

\* lines 55-67: the names are registered one after the other
RECURSIVE register(_, _)
register(subs, names) ==
    IF names = <<>> THEN subs
    ELSE register(IF is_configured(subs, Head(names)) THEN subs
                  ELSE Append(subs, DefaultEntry(Head(names))),
                  Tail(names))

Disk == [config_dir |-> config_dir, config_file |-> config_file, fs |-> fs]

NoSync ==
    /\ todo' = <<>>
    /\ working_set' = <<>>
    /\ outcomes' = <<>>
    /\ calls' = <<>>

\* init --submodules arg
init_monorepo(arg) ==
    LET names == parse_names(arg)
        loaded == load_or_create_config(config_file)
        registered == register(loaded.val, names)
    IN /\ pc = "idle"
       /\ config_dir' = TRUE                               \* lines 34-37
       /\ IF invalid_names(names)                          \* lines 45-51
          THEN /\ ret' = "err"
               /\ app_config' = <<>>
               /\ saved' = NoSave
               /\ UNCHANGED config_file
          ELSE IF ~loaded.ok                               \* line 53
          THEN /\ ret' = "err"
               /\ app_config' = <<>>
               /\ saved' = NoSave
               /\ config_file' = file_after_load(config_file)
          ELSE /\ Len(registered) <= MaxEntries
               /\ app_config' = registered                 \* lines 55-67
               /\ saved' = [any |-> TRUE, subs |-> registered]
               /\ config_file' = save_config(registered)   \* line 69
               /\ ret' = "ok"
       /\ cmd' = [op |-> "init", has_arg |-> TRUE, arg |-> arg]
       /\ before' = Disk
       /\ NoSync
       /\ pc' = "done"
       /\ UNCHANGED fs

InitCmd == \E arg \in ArgStrings : init_monorepo(arg)

-----------------------------------------------------------------------------
(* sync (main.rs, sync_submodules) *)

\* the filter is not applied
filter_names_all(subs, names) == subs

\* the entries are taken name by name, in the order of the filter
RECURSIVE filter_names_in_filter_order(_, _)
filter_names_in_filter_order(subs, names) ==
    IF names = <<>> THEN <<>>
    ELSE SelectSeq(subs, LAMBDA e : e.name = Head(names))
         \o filter_names_in_filter_order(subs, Tail(names))

\* lines 116-120: the entries whose name is among the names, in registry order
RECURSIVE filter_names(_, _)
filter_names(subs, names) ==
    IF subs = <<>> THEN <<>>
    ELSE (IF Contains(names, Head(subs).name) THEN <<Head(subs)>> ELSE <<>>)
         \o filter_names(Tail(subs), names)

\* lines 74-132: up to the loop
sync_submodules(has_arg, arg) ==
    LET loaded == load_or_create_config(config_file)
        names == parse_names(arg)
        selected == IF has_arg THEN filter_names(loaded.val, names) ELSE loaded.val
        enter == /\ config_dir /\ loaded.ok /\ loaded.val # <<>>
                 /\ ~(has_arg /\ \E i \in 1..Len(names) : names[i] = <<>>)
                 /\ selected # <<>>
    IN /\ pc = "idle"
       /\ cmd' = [op |-> "sync", has_arg |-> has_arg, arg |-> arg]
       /\ before' = Disk
       /\ outcomes' = <<>>
       /\ calls' = <<>>
       /\ IF ~config_dir THEN ret' = "err"                              \* lines 76-81
          ELSE IF ~loaded.ok THEN ret' = "err"                          \* line 83
          ELSE IF loaded.val = <<>> THEN ret' = "ok"                    \* lines 84-87
          ELSE IF has_arg /\ \E i \in 1..Len(names) : names[i] = <<>>
               THEN ret' = "err"                                        \* lines 110-115
          ELSE IF selected = <<>> THEN ret' = "ok"                      \* lines 125-132
          ELSE ret' = "running"
       /\ pc' = IF enter THEN "loop" ELSE "done"
       /\ working_set' = IF enter THEN selected ELSE <<>>
       /\ todo' = IF enter THEN selected ELSE <<>>
       /\ app_config' = IF config_dir /\ loaded.ok THEN loaded.val ELSE <<>>
       /\ saved' = NoSave
       /\ config_file' = IF config_dir THEN file_after_load(config_file) ELSE config_file
       /\ UNCHANGED <<config_dir, fs>>

SyncCmd ==
    \/ sync_submodules(FALSE, <<>>)
    \/ \E arg \in ArgStrings : sync_submodules(TRUE, arg)

\* lines 164-169: the fixed flags
FixedFlags ==
    << <<"-a">>, <<"--delete">>, <<"--times">>, <<"--no-perms">>, <<"--no-owner">>,
       <<"--no-group">> >>

\* the exclude rules are put before the include rules
rsync_args_excludes_first(sub, src, tgt) ==
    FixedFlags
    \o [i \in 1..Len(sub.exclude) |-> <<"--exclude=">> \o sub.exclude[i]]
    \o [i \in 1..Len(sub.include) |-> <<"--include=">> \o sub.include[i]]
    \o << path_string(src) \o <<"/">>, path_string(tgt) >>

\* lines 163-183: the arguments of the rsync command
rsync_args(sub, src, tgt) ==
    FixedFlags
    \o [i \in 1..Len(sub.include) |-> <<"--include=">> \o sub.include[i]]
    \o [i \in 1..Len(sub.exclude) |-> <<"--exclude=">> \o sub.exclude[i]]
    \o << path_string(src) \o <<"/">>, path_string(tgt) >>

\* the loop goes on to the next entry, or ends and line 198 returns Ok
Continue(sub, outcome) ==
    /\ todo' = Tail(todo)
    /\ outcomes' = Append(outcomes, [name |-> sub.name, outcome |-> outcome])
    /\ pc' = IF Tail(todo) = <<>> THEN "done" ELSE "loop"
    /\ ret' = IF Tail(todo) = <<>> THEN "ok" ELSE "running"

\* the ? operator returns the error from sync_submodules
Propagate(sub, outcome) ==
    /\ todo' = Tail(todo)
    /\ outcomes' = Append(outcomes, [name |-> sub.name, outcome |-> outcome])
    /\ pc' = "done"
    /\ ret' = "err"

\* how the rsync process can end: exit 0, another exit code, or not started
ToolResults == { "success", "failure", "spawn_error" }

\* the is_dir test is left out
source_missing_exists_only(f, src) == ~exists(f, src)

\* line 138: the entry has no source directory
source_missing(f, src) == ~exists(f, src) \/ ~is_dir(f, src)

\* lines 150-153 when create_dir_all succeeds: the target is there afterwards
ensure_target(f, tgt) == IF ~exists(f, tgt) THEN [f EXCEPT ![tgt] = "dir"] ELSE f

\* lines 134-196: one iteration of the loop
sync_entry ==
    LET sub == Head(todo)
        src == source_path(sub)
        tgt == target_path(sub)
    IN /\ pc = "loop"
       /\ UNCHANGED <<config_dir, config_file, working_set, cmd, before, app_config, saved>>
       /\ \/ /\ source_missing(fs, src)                                 \* lines 138-144
             /\ Continue(sub, "skipped_source")
             /\ UNCHANGED <<fs, calls>>
          \/ /\ ~source_missing(fs, src)
             /\ ~exists(fs, tgt)
             /\ Propagate(sub, "create_error")                          \* line 152, Err
             /\ UNCHANGED <<fs, calls>>
          \/ /\ ~source_missing(fs, src)
             /\ fs' = ensure_target(fs, tgt)                            \* lines 150-153
             /\ IF ~is_dir(fs', tgt)                                    \* lines 154-160
                THEN Continue(sub, "skipped_target") /\ UNCHANGED calls
                ELSE \E st \in ToolResults :                            \* line 187
                     IF st = "spawn_error"
                     THEN Propagate(sub, "spawn_error") /\ UNCHANGED calls
                     ELSE /\ calls' = Append(calls, [name |-> sub.name,
                                                     args |-> rsync_args(sub, src, tgt)])
                          /\ Continue(sub, IF st = "success" THEN "synced" ELSE "failed")

-----------------------------------------------------------------------------
(* The system *)

\* documents that do not parse: an empty file, a cut-off document
MalformedDocs ==
    { <<>>,
      SubSeq(to_string_pretty(CustomRegistry), 1, Len(to_string_pretty(CustomRegistry)) - 1) }

NoCmd == [op |-> "none", has_arg |-> FALSE, arg |-> <<>>]

NoFile == [exists |-> FALSE, contents |-> <<>>]

InitFiles ==
    { NoFile, save_config(<<>>), save_config(CustomRegistry) }
    \cup { [exists |-> TRUE, contents |-> d] : d \in MalformedDocs }

Init ==
    /\ config_dir \in BOOLEAN
    /\ config_file \in InitFiles
    /\ config_dir \/ config_file = NoFile
    /\ fs \in [FsPaths -> Kinds]
    /\ pc = "idle"
    /\ todo = <<>>
    /\ working_set = <<>>
    /\ outcomes = <<>>
    /\ calls = <<>>
    /\ ret = "none"
    /\ cmd = NoCmd
    /\ before = Disk
    /\ app_config = <<>>
    /\ saved = NoSave

\* main returns and the process exits: nothing but the disk outlives it
main_returns ==
    /\ pc = "done"
    /\ pc' = "idle"
    /\ ret' = "none"
    /\ cmd' = NoCmd
    /\ before' = Disk
    /\ app_config' = <<>>
    /\ saved' = NoSave
    /\ NoSync
    /\ UNCHANGED <<config_dir, config_file, fs>>

Next == InitCmd \/ SyncCmd \/ sync_entry \/ main_returns

Spec == Init /\ [][Next]_vars

-----------------------------------------------------------------------------
(* Saving and loading on their own (config.rs): a registry is saved, then the
   document is loaded *)

Patterns == { <<"*">>, <<"lib/***">> }

RuleLists == UNION { [1..n -> Patterns] : n \in 0..MaxRules }

DrawnEntries ==
    { SubmoduleConfig(n, p, inc, exc) :
        n \in Names, p \in Names, inc \in RuleLists, exc \in RuleLists }

\* the registries of at most two entries with different names
ValidRegistries ==
    { <<>> } \cup { <<e>> : e \in DrawnEntries }
    \cup { <<q[1], q[2]>> :
             q \in { d \in DrawnEntries \X DrawnEntries : d[1].name # d[2].name } }

RoundTripInit ==
    /\ config_dir = TRUE
    /\ config_file \in { NoFile, save_config(CustomRegistry) }
    /\ fs = [p \in FsPaths |-> "absent"]
    /\ pc = "idle"
    /\ todo = <<>>
    /\ working_set = <<>>
    /\ outcomes = <<>>
    /\ calls = <<>>
    /\ ret = "none"
    /\ cmd = NoCmd
    /\ before = Disk
    /\ app_config = <<>>
    /\ saved = NoSave

\* config::save_config(config_dir, &r)
save_step ==
    /\ pc = "idle"
    /\ \E r \in ValidRegistries :
           /\ app_config' = r
           /\ saved' = [any |-> TRUE, subs |-> r]
           /\ config_file' = save_config(r)
    /\ pc' = "saved"
    /\ ret' = "ok"
    /\ cmd' = [op |-> "save", has_arg |-> FALSE, arg |-> <<>>]
    /\ UNCHANGED <<config_dir, fs, todo, working_set, outcomes, calls, before>>

\* config::load_or_create_config(config_dir)
load_step ==
    /\ pc = "saved"
    /\ app_config' = load_or_create_config(config_file).val
    /\ ret' = IF load_or_create_config(config_file).ok THEN "ok" ELSE "err"
    /\ config_file' = file_after_load(config_file)
    /\ pc' = "done"
    /\ cmd' = [op |-> "load", has_arg |-> FALSE, arg |-> <<>>]
    /\ UNCHANGED <<config_dir, fs, todo, working_set, outcomes, calls, before, saved>>

RoundTripNext == save_step \/ load_step

RoundTripSpec == RoundTripInit /\ [][RoundTripNext]_vars

-----------------------------------------------------------------------------
(* What the claims speak of *)

\* the registry a document holds (empty when there is none or it does not parse)
Registry(file) == load_or_create_config(file).val
Parses(file) == load_or_create_config(file).ok

RegNow == Registry(config_file)
RegBefore == Registry(before.config_file)

\* how many entries of subs are named n
Count(subs, n) == Cardinality({ i \in 1..Len(subs) : subs[i].name = n })

\* arg[i..j] is one of the comma-separated pieces of arg (j = i - 1: an empty one)
IsPiece(arg, i, j) ==
    /\ i = 1 \/ arg[i - 1] = Comma
    /\ j = Len(arg) \/ arg[j + 1] = Comma
    /\ \A k \in i..j : arg[k] # Comma

\* some piece of arg is empty or whitespace only
HasBlankPiece(arg) ==
    \E i \in 1..(Len(arg) + 1) : \E j \in (i - 1)..Len(arg) :
        IsPiece(arg, i, j) /\ \A k \in i..j : arg[k] = Space

\* the names given in arg
ArgNames == { parse_names(cmd.arg)[k] : k \in 1..Len(parse_names(cmd.arg)) }

InitDone == pc = "done" /\ cmd.op = "init"
SyncDone == pc = "done" /\ cmd.op = "sync"

\* the entry of the working set a call was made for
EntryOf(call) ==
    working_set[CHOOSE i \in 1..Len(working_set) : working_set[i].name = call.name]

CallsFor(n) == { k \in 1..Len(calls) : calls[k].name = n }

Visited(i) == i <= Len(outcomes)

NoSpawnError == \A i \in 1..Len(outcomes) : outcomes[i].outcome # "spawn_error"

-----------------------------------------------------------------------------
(* Claims *)

\* C1: a successful init leaves exactly one entry for each name it was given;
\* an entry that was there before the call is still the same entry at the same
\* place, and when every name given was registered before, the registry after
\* the call equals the registry before it.
IdempotentRegistration ==
    (InitDone /\ ret = "ok") =>
        /\ \A n \in ArgNames : Count(RegNow, n) = 1
        /\ \A n \in ArgNames : \A i \in 1..Len(RegBefore) :
               RegBefore[i].name = n => (i <= Len(RegNow) /\ RegNow[i] = RegBefore[i])
        /\ (\A n \in ArgNames : Count(RegBefore, n) = 1) => RegNow = RegBefore

\* C1 witness: an init that succeeded with names that were all registered, one
\* of them with the default entry an earlier init makes
SecondRegistration ==
    /\ InitDone /\ ret = "ok"
    /\ \A n \in ArgNames : Count(RegBefore, n) = 1
    /\ \E n \in ArgNames : \E i \in 1..Len(RegBefore) : RegBefore[i] = DefaultEntry(n)
    /\ RegNow = RegBefore

\* C2: an init whose list has an empty or whitespace-only piece fails and leaves
\* the registry document as it was.
ValidationAllOrNothing ==
    (InitDone /\ HasBlankPiece(cmd.arg)) =>
        (ret = "err" /\ config_file = before.config_file)

\* C2 witness: a refused list that also held a valid name not yet registered,
\* given while a valid document was on disk
RefusedWithValidName ==
    /\ InitDone /\ HasBlankPiece(cmd.arg)
    /\ before.config_file.exists /\ Parses(before.config_file)
    /\ \E n \in ArgNames : n # <<>> /\ Count(RegBefore, n) = 0
    /\ ret = "err"

\* C3: at the end of a sync, for an entry of the working set without a source
\* directory no target is created and the tool is not invoked, and every other
\* entry of the working set has been visited.
MissingSourceIsolated ==
    (SyncDone /\ NoSpawnError) =>
        \A i \in 1..Len(working_set) :
            before.fs[source_path(working_set[i])] # "dir" =>
                /\ CallsFor(working_set[i].name) = {}
                /\ fs[target_path(working_set[i])] = before.fs[target_path(working_set[i])]
                /\ \A j \in 1..Len(working_set) : j # i => Visited(j)

\* C4: a failure to create the target of one entry does not end the sync: every
\* entry of the working set is visited and the call does not return the error.
CreateErrorScoped ==
    SyncDone =>
        \A i \in 1..Len(outcomes) :
            outcomes[i].outcome = "create_error" =>
                (ret # "err" /\ \A j \in 1..Len(working_set) : Visited(j))

\* C5: after a non-zero exit of the tool for one entry every later entry of the
\* working set is visited.
ToolFailureScoped ==
    (SyncDone /\ NoSpawnError) =>
        \A i \in 1..Len(outcomes) :
            outcomes[i].outcome = "failed" =>
                \A j \in (i + 1)..Len(working_set) : Visited(j)

\* C6: the arguments of every invocation are the fixed flags, one --include per
\* include rule in order, one --exclude per exclude rule in order, and the two
\* paths: nothing dropped, merged or moved.
FilterOrderPreserved ==
    \A k \in 1..Len(calls) :
        LET e == EntryOf(calls[k])
            a == calls[k].args
            ni == Len(e.include)
            ne == Len(e.exclude)
            base == Len(FixedFlags)
        IN /\ Len(a) = base + ni + ne + 2
           /\ \A i \in 1..ni : a[base + i] = <<"--include=">> \o e.include[i]
           /\ \A j \in 1..ne : a[base + ni + j] = <<"--exclude=">> \o e.exclude[j]

\* C6 witness: an invocation for an entry with a repeated include rule and two
\* exclude rules
CallWithRepeatedRule ==
    \E k \in 1..Len(calls) :
        LET e == EntryOf(calls[k]) IN
            /\ Len(e.include) >= 2 /\ e.include[1] = e.include[2]
            /\ Len(e.exclude) >= 2

\* C7: a sync with a name filter works on exactly the registry entries named in
\* the filter, invokes the tool once for each of them that has a source and a
\* target directory, and never for another entry.
NameFilteredSync ==
    (/\ SyncDone /\ cmd.has_arg /\ NoSpawnError
     /\ before.config_dir /\ Parses(before.config_file) /\ ~HasBlankPiece(cmd.arg)) =>
        LET selected == SelectSeq(RegBefore, LAMBDA e : e.name \in ArgNames) IN
            /\ working_set = selected
            /\ \A i \in 1..Len(selected) :
                   (/\ before.fs[source_path(selected[i])] = "dir"
                    /\ before.fs[target_path(selected[i])] = "dir")
                   => Cardinality(CallsFor(selected[i].name)) = 1
            /\ \A k \in 1..Len(calls) :
                   \E i \in 1..Len(selected) : selected[i].name = calls[k].name

\* C8: the tool is invoked for an entry only when its source is a directory and
\* its target is a directory; a target that was absent when the sync started has
\* been created.
TargetAutoCreation ==
    \A k \in 1..Len(calls) :
        LET e == EntryOf(calls[k]) IN
            /\ fs[source_path(e)] = "dir"
            /\ fs[target_path(e)] = "dir"
            /\ before.fs[source_path(e)] = "dir"
            /\ before.fs[target_path(e)] \in { "absent", "dir" }

\* C8 witness: an invocation for an entry whose target was absent
CallAfterCreation ==
    \E k \in 1..Len(calls) :
        LET e == EntryOf(calls[k]) IN
            before.fs[target_path(e)] = "absent" /\ fs[target_path(e)] = "dir"

\* C9: no two entries of the persisted registry have the same name.
NameUniqueness ==
    \A i \in 1..Len(RegNow) : \A j \in 1..Len(RegNow) :
        RegNow[i].name = RegNow[j].name => i = j

\* C9 witness: a registry of three entries after an init that was given a name
\* twice, or a name that was registered
RepeatedNameRegistered ==
    /\ InitDone /\ ret = "ok"
    /\ Len(RegNow) = 3
    /\ \/ \E n \in ArgNames : Count(RegBefore, n) = 1
       \/ Len(parse_names(cmd.arg)) > Cardinality(ArgNames)

\* C10: an init that fails, and a sync that fails for want of the registry
\* directory, leave the disk (registry directory, document, targets) as it was.
NoMutationOnAbort ==
    (/\ pc = "done" /\ ret = "err"
     /\ cmd.op = "init" \/ (cmd.op = "sync" /\ ~before.config_dir)) =>
        Disk = before

-----------------------------------------------------------------------------
(* Claims C11 to C18 *)

\* C11: a visited entry whose source is a directory and whose target path is a
\* file is skipped: no invocation for it, the file stays, and every later entry
\* of the working set is visited.
BadTargetIsolated ==
    (SyncDone /\ NoSpawnError) =>
        \A i \in 1..Len(outcomes) :
            (/\ before.fs[source_path(working_set[i])] = "dir"
             /\ before.fs[target_path(working_set[i])] = "file") =>
                /\ outcomes[i].outcome = "skipped_target"
                /\ CallsFor(working_set[i].name) = {}
                /\ fs[target_path(working_set[i])] = "file"
                /\ \A j \in (i + 1)..Len(working_set) : Visited(j)

\* no entry of the registry before the call is named in the filter
NoMatch == \A i \in 1..Len(RegBefore) : RegBefore[i].name \notin ArgNames

\* the sync ended well, with nothing visited, invoked or created
BenignEmpty == ret = "ok" /\ outcomes = <<>> /\ calls = <<>> /\ fs = before.fs

FirstAt(n) ==
    CHOOSE k \in 1..Len(parse_names(cmd.arg)) :
        /\ parse_names(cmd.arg)[k] = n
        /\ \A m \in 1..(k - 1) : parse_names(cmd.arg)[m] # n

\* C13: after a successful init the registry before the call is a prefix of the
\* registry after it, and the entries after the prefix are those of the names
\* that were not registered, one each, in the order of their first appearance.
RegistrationAppends ==
    (InitDone /\ ret = "ok") =>
        LET old == Len(RegBefore)
            new == (old + 1)..Len(RegNow)
        IN /\ old <= Len(RegNow)
           /\ \A i \in 1..old : RegNow[i] = RegBefore[i]
           /\ \A n \in ArgNames :
                  Count(RegBefore, n) = 0 => \E i \in new : RegNow[i].name = n
           /\ \A i \in new :
                  RegNow[i].name \in ArgNames /\ Count(RegBefore, RegNow[i].name) = 0
           /\ \A i \in new : \A j \in new :
                  i < j => FirstAt(RegNow[i].name) < FirstAt(RegNow[j].name)

\* C13 witness: two names registered after the hand-edited entry
TwoAppendedAfterCustom ==
    /\ InitDone /\ ret = "ok"
    /\ RegBefore = CustomRegistry
    /\ Len(RegNow) = Len(RegBefore) + 2
    /\ RegNow[1] = CustomRegistry[1]

\* C14: a registry that was saved and then loaded from the same directory is
\* loaded without error and is the registry that was saved: as many entries, and
\* at every place the same name, path, include list and exclude list.
RoundTrip ==
    (pc = "done" /\ cmd.op = "load") =>
        /\ ret = "ok"
        /\ Len(app_config) = Len(saved.subs)
        /\ \A i \in 1..Len(saved.subs) :
               /\ app_config[i].name = saved.subs[i].name
               /\ app_config[i].path = saved.subs[i].path
               /\ app_config[i].include = saved.subs[i].include
               /\ app_config[i].exclude = saved.subs[i].exclude

\* C14 witness: two entries came back, the first with two different include
\* rules and no exclude rule
TwoEntriesLoaded ==
    /\ pc = "done" /\ cmd.op = "load" /\ ret = "ok"
    /\ Len(saved.subs) = 2 /\ Len(app_config) = 2
    /\ Len(saved.subs[1].include) = 2
    /\ saved.subs[1].include[1] # saved.subs[1].include[2]
    /\ saved.subs[1].exclude = <<>>

\* the document on disk is one of the documents that do not parse
Malformed(file) == file.exists /\ file.contents \in MalformedDocs

\* C15: with a malformed document init and sync fail, hold no registry and leave
\* the document as it is; with no document a sync of an initialized monorepo
\* ends well on an empty registry and an init with valid names ends well with
\* exactly the entries of its names.
LoadAbsentVsCorrupt ==
    /\ (pc = "done" /\ cmd.op \in { "init", "sync" } /\ Malformed(before.config_file)) =>
           /\ ret = "err"
           /\ config_file = before.config_file
           /\ app_config = <<>> /\ working_set = <<>> /\ calls = <<>>
    /\ (SyncDone /\ before.config_dir /\ ~before.config_file.exists) =>
           (ret = "ok" /\ app_config = <<>> /\ ~config_file.exists)
    /\ (InitDone /\ ~before.config_file.exists /\ ~HasBlankPiece(cmd.arg)) =>
           /\ ret = "ok"
           /\ Len(app_config) = Cardinality(ArgNames)
           /\ \A i \in 1..Len(app_config) : app_config[i].name \in ArgNames

\* C15 witness: an init with valid names met a cut-off document
InitOnCorruptDocument ==
    /\ InitDone /\ Malformed(before.config_file)
    /\ before.config_file.contents # <<>>
    /\ ~HasBlankPiece(cmd.arg)
    /\ ret = "err"

\* C16: every entry a successful init adds has its name as path, the three
\* default include rules in order and the one exclude rule "*"; on an empty
\* registry an init with distinct names yields exactly their entries in the
\* order given.
DefaultEntryShape ==
    (InitDone /\ ret = "ok") =>
        /\ \A i \in (Len(RegBefore) + 1)..Len(RegNow) :
               /\ RegNow[i].name \in ArgNames
               /\ RegNow[i].path = RegNow[i].name
               /\ RegNow[i].include = << <<"lib/***">>, <<"pubspec.yaml">>, <<"test/***">> >>
               /\ RegNow[i].exclude = << <<"*">> >>
        /\ (RegBefore = <<>> /\ Len(parse_names(cmd.arg)) = Cardinality(ArgNames)) =>
               /\ Len(RegNow) = Len(parse_names(cmd.arg))
               /\ \A k \in 1..Len(RegNow) : RegNow[k].name = parse_names(cmd.arg)[k]

\* C16 witness: two names registered where there was no document
TwoDefaultsOnEmpty ==
    /\ InitDone /\ ret = "ok"
    /\ ~before.config_file.exists
    /\ Len(RegNow) = 2

\* the place of the entry named n in the registry before the call
PlaceOf(n) == CHOOSE k \in 1..Len(RegBefore) : RegBefore[k].name = n

\* C17: during and after a sync the working set is in registry order without
\* repetition, the visited entries are its first entries in that order, the
\* entries still to visit are the rest, every invocation belongs to a visited
\* entry that ended synced or failed, and no entry has two invocations.
SequentialNoRetry ==
    (cmd.op = "sync" /\ pc \in { "loop", "done" }) =>
        /\ \A i \in 1..Len(working_set) : \A j \in 1..Len(working_set) :
               i < j => PlaceOf(working_set[i].name) < PlaceOf(working_set[j].name)
        /\ Len(outcomes) <= Len(working_set)
        /\ \A i \in 1..Len(outcomes) : outcomes[i].name = working_set[i].name
        /\ pc = "loop" => todo = SubSeq(working_set, Len(outcomes) + 1, Len(working_set))
        /\ \A i \in 1..Len(working_set) :
               Cardinality(CallsFor(working_set[i].name)) =
                   IF Visited(i) /\ outcomes[i].outcome \in { "synced", "failed" }
                   THEN 1 ELSE 0
        /\ \A k \in 1..Len(calls) : \A l \in 1..Len(calls) :
               k < l => PlaceOf(calls[k].name) < PlaceOf(calls[l].name)

\* C17 witness: the filter names two entries in the reverse of registry order,
\* the first one synced failed, both were invoked once
ReverseFilterOrder ==
    /\ SyncDone /\ cmd.has_arg
    /\ Len(parse_names(cmd.arg)) = 2
    /\ Len(outcomes) = 2
    /\ outcomes[1].name = parse_names(cmd.arg)[2]
    /\ outcomes[2].name = parse_names(cmd.arg)[1]
    /\ outcomes[1].outcome = "failed"
    /\ Len(calls) = 2

\* C18: during and after a sync the registry directory and document are as
\* they were when the sync started.
SyncReadOnly ==
    cmd.op = "sync" =>
        (config_file = before.config_file /\ config_dir = before.config_dir)

\* C18 witness: a sync that invoked the tool and then ended with an error,
\* with a document on disk
SyncAbortedAfterCall ==
    /\ SyncDone /\ ret = "err"
    /\ Len(calls) >= 1
    /\ config_file.exists

====
